---- MODULE Spec2Model ----
(***************************************************************************)
(* Model of py_generate_cert.py: the self-signed certificate generator.    *)
(* A Python str is a sequence of one-character strings, so that the SAN    *)
(* classification of parse_san is computed from the characters.            *)
(***************************************************************************)
EXTENDS Integers, Sequences, FiniteSets, TLC

----------------------------------------------------------------------------
(* Strings *)

S_localhost == <<"l","o","c","a","l","h","o","s","t">>
S_LOCALHOST == <<"L","O","C","A","L","H","O","S","T">>
S_example   == <<"e","x",".","c","o","m">>
S_wildcard  == <<"*",".","e","x",".","c","o","m">>
S_10_0_0_5  == <<"1","0",".","0",".","0",".","5">>
S_127_0_0_1 == <<"1","2","7",".","0",".","0",".","1">>
S_v6_loop   == <<":",":","1">>
S_v6_long   == <<"0",":","0",":","0",":","0",":","0",":","0",":","0",":","1">>

DecDigits == <<"0","1","2","3","4","5","6","7","8","9">>
HexLower  == DecDigits \o <<"a","b","c","d","e","f">>
HexUpper  == DecDigits \o <<"A","B","C","D","E","F">>

Range(s) == {s[i] : i \in DOMAIN s}

IndexOf(c, seq) == CHOOSE i \in DOMAIN seq : seq[i] = c

\* str.split(sep): the pieces of s between the occurrences of sep
RECURSIVE SplitFrom(_, _, _, _)
SplitFrom(s, sep, i, cur) ==
    IF i > Len(s) THEN <<cur>>
    ELSE IF s[i] = sep THEN <<cur>> \o SplitFrom(s, sep, i + 1, <<>>)
    ELSE SplitFrom(s, sep, i + 1, Append(cur, s[i]))

Split(s, sep) == SplitFrom(s, sep, 1, <<>>)

\* int(s) for a non-empty string of decimal digits
RECURSIVE DecValue(_)
DecValue(s) ==
    IF Len(s) = 0 THEN 0
    ELSE 10 * DecValue(SubSeq(s, 1, Len(s) - 1)) + (IndexOf(s[Len(s)], DecDigits) - 1)

HexDigitValue(c) ==
    IF c \in Range(HexLower) THEN IndexOf(c, HexLower) - 1 ELSE IndexOf(c, HexUpper) - 1

\* int(s, 16) for a non-empty string of hex digits
RECURSIVE HexValue(_)
HexValue(s) ==
    IF Len(s) = 0 THEN 0
    ELSE 16 * HexValue(SubSeq(s, 1, Len(s) - 1)) + HexDigitValue(s[Len(s)])

\* '%x' % n
RECURSIVE ToHex(_)
ToHex(n) ==
    IF n < 16 THEN <<HexLower[n + 1]>>
    ELSE ToHex(n \div 16) \o <<HexLower[(n % 16) + 1]>>

----------------------------------------------------------------------------
(* ipaddress.ip_address, as called by parse_san *)

\* IPv4Address._parse_octet succeeds
OctetOk(o) ==
    /\ Len(o) > 0
    /\ Range(o) \subseteq Range(DecDigits)
    /\ Len(o) <= 3
    /\ ~(Len(o) > 1 /\ o[1] = "0")
    /\ DecValue(o) <= 255

\* IPv4Address(s) does not raise
IsIPv4(s) ==
    /\ Len(s) > 0
    /\ LET octets == Split(s, ".")
       IN  /\ Len(octets) = 4
           /\ \A i \in 1..4 : OctetOk(octets[i])

IPv4Octets(s) == LET octets == Split(s, ".") IN [i \in 1..4 |-> DecValue(octets[i])]

\* the parts of an IPv6 literal, an embedded dotted quad rewritten as two hextets
V6Parts(s) ==
    LET parts == Split(s, ":")
        last  == parts[Len(parts)]
    IN  IF "." \in Range(last) /\ IsIPv4(last)
        THEN LET o == IPv4Octets(last)
             IN  SubSeq(parts, 1, Len(parts) - 1)
                   \o <<ToHex(o[1] * 256 + o[2]), ToHex(o[3] * 256 + o[4])>>
        ELSE parts

\* the indexes i in range(1, len(parts) - 1) with an empty part (the "::")
V6Skips(parts) == {i \in 2..(Len(parts) - 1) : Len(parts[i]) = 0}

V6SkipIndex(parts) == CHOOSE i \in V6Skips(parts) : TRUE

V6PartsHi(parts) ==
    IF V6Skips(parts) = {} THEN Len(parts)
    ELSE (V6SkipIndex(parts) - 1) - (IF Len(parts[1]) = 0 THEN 1 ELSE 0)

V6PartsLo(parts) ==
    IF V6Skips(parts) = {} THEN 0
    ELSE (Len(parts) - V6SkipIndex(parts)) - (IF Len(parts[Len(parts)]) = 0 THEN 1 ELSE 0)

\* IPv6Address._parse_hextet succeeds
HextetOk(h) ==
    /\ Len(h) > 0
    /\ Range(h) \subseteq (Range(HexLower) \cup Range(HexUpper))
    /\ Len(h) <= 4

\* IPv6Address(s) does not raise
IsIPv6(s) ==
    /\ Len(s) > 0
    /\ Len(Split(s, ":")) >= 3
    /\ LET raw == Split(s, ":") IN "." \in Range(raw[Len(raw)]) => IsIPv4(raw[Len(raw)])
    /\ LET parts == V6Parts(s)
           n     == Len(parts)
           hi    == V6PartsHi(parts)
           lo    == V6PartsLo(parts)
       IN  /\ n <= 9
           /\ Cardinality(V6Skips(parts)) <= 1
           /\ IF V6Skips(parts) # {}
              THEN /\ (Len(parts[1]) = 0 => hi = 0)
                   /\ (Len(parts[n]) = 0 => lo = 0)
                   /\ 8 - (hi + lo) >= 1
              ELSE /\ n = 8
                   /\ Len(parts[1]) > 0
                   /\ Len(parts[n]) > 0
           /\ \A i \in 1..hi : HextetOk(parts[i])
           /\ \A i \in (n - lo + 1)..n : HextetOk(parts[i])

IPv6Hextets(s) ==
    LET parts == V6Parts(s)
        n     == Len(parts)
        hi    == V6PartsHi(parts)
        lo    == V6PartsLo(parts)
    IN  [i \in 1..8 |->
            IF i <= hi THEN HexValue(parts[i])
            ELSE IF i > 8 - lo THEN HexValue(parts[n - (8 - i)])
            ELSE 0]

\* ip_address(s) returns (does not raise ValueError)
IsIP(s) == IsIPv4(s) \/ IsIPv6(s)

\* the address ip_address(s) returns: IPv4 is tried first
ip_address(s) ==
    IF IsIPv4(s) THEN [version |-> 4, groups |-> IPv4Octets(s)]
    ELSE [version |-> 6, groups |-> IPv6Hextets(s)]

----------------------------------------------------------------------------
(* Other library conversions used by the program *)

UpperChars == <<"Y","N","E","S">>
LowerChars == <<"y","n","e","s">>

\* str.lower()
str_lower(s) ==
    [i \in DOMAIN s |->
        IF s[i] \in Range(UpperChars) THEN LowerChars[IndexOf(s[i], UpperChars)] ELSE s[i]]

\* int(s) of argparse's type=int does not raise: an optional sign, then digits
IntOk(s) ==
    LET body == IF Len(s) > 0 /\ s[1] \in {"-", "+"} THEN Tail(s) ELSE s
    IN  Len(body) > 0 /\ Range(body) \subseteq Range(DecDigits)

IntValue(s) ==
    IF s[1] = "-" THEN 0 - DecValue(Tail(s))
    ELSE IF s[1] = "+" THEN DecValue(Tail(s))
    ELSE DecValue(s)

SecondsPerDay == 86400
DefaultDays   == 365

\* datetime.timedelta(days=d), in seconds
timedelta(d) == d * SecondsPerDay

----------------------------------------------------------------------------
(* Bounds and input sets *)

MaxSans  == 3      \* longest list of --san values
MaxClock == 2      \* seconds the clock may advance during a run
PemLen   == 2      \* length of a complete PEM file, in write units

SeqsUpTo(S, n) == UNION {[1..k -> S] : k \in 0..n}

Hostnames   == {S_localhost, S_LOCALHOST, S_example, S_10_0_0_5}
SanStrings  == {S_example, S_wildcard, S_10_0_0_5, S_127_0_0_1, S_v6_loop, S_v6_long,
                S_localhost, S_LOCALHOST}
MainHosts   == {S_localhost, S_example}
MainSans    == {S_example, S_10_0_0_5}
\* the -d argument: <<>> stands for the option not given
DayStrings  == {<<>>, <<"1">>, <<"0">>, <<"-","5">>, <<"1","x">>}
Responses   == {<<"y">>, <<"Y">>, <<"n">>, <<"y","e","s">>, <<>>}

----------------------------------------------------------------------------
(* State *)

VARIABLES
    pc,          \* position of the run in main / generate_certificate
    args,        \* the argparse namespace
    key_file0,   \* content of the key path when the run started
    cert_file0,  \* content of the certificate path when the run started
    key_file,    \* content of the key path: <<>> absent, <<[gen, len]>> present
    cert_file,   \* content of the certificate path
    now,         \* the UTC clock, in seconds
    prompted,    \* the overwrite prompt was shown
    response,    \* <<>>, or <<r>> once input() returned r
    key,         \* <<>>, or <<g>>: the private key of generation g
    san_list,    \* the SAN list being built
    idx,         \* position of the loop over args.sans
    builder,     \* the CertificateBuilder: validity window and extensions
    cert,        \* <<>>, or <<c>>: the signed certificate
    failed,      \* the step of generate_certificate that raised, "" if none
    stdout,      \* what was printed
    stderr,      \* what was written to the error stream
    exit_code    \* the process's exit status, meaningful once pc = "exited"

vars == <<pc, args, key_file0, cert_file0, key_file, cert_file, now, prompted, response,
          key, san_list, idx, builder, cert, failed, stdout, stderr, exit_code>>

Absent == <<>>
\* a file holding the first n units of the PEM text of generation g
\* ("previous": an earlier run, "this run": the key pair generated by this run)
Content(g, n) == IF n = 0 THEN <<[gen |-> "nobody", len |-> 0]>> ELSE <<[gen |-> g, len |-> n]>>
Complete(g) == Content(g, PemLen)

NoArgs == [hostname |-> <<>>, days |-> 0, sans |-> <<>>, overwrite |-> FALSE]
EmptyBuilder == [not_valid_before |-> <<>>, not_valid_after |-> <<>>, extensions |-> <<>>]

DNSName(v)   == [tag |-> "DNSName", value |-> v]
IPAddress(a) == [tag |-> "IPAddress", value |-> a]

\* GeneralName.__eq__: same type and same value
SanEq(a, b) == a.tag = b.tag /\ a.value = b.value

parse_san_dns_only(san_value) == DNSName(san_value)

parse_san(san_value) ==
    IF IsIP(san_value) THEN IPAddress(ip_address(san_value)) ELSE DNSName(san_value)

IsLocalhost_nocase(hostname) ==
    Len(hostname) = Len(S_localhost)
    /\ \A i \in DOMAIN hostname :
          hostname[i] = S_localhost[i] \/ hostname[i] = S_LOCALHOST[i]

IsLocalhost(hostname) == hostname = S_localhost

\* san_list after lines 116-123
InitialSans(hostname) ==
    <<DNSName(hostname)>>
      \o (IF IsLocalhost(hostname)
          THEN <<IPAddress(ip_address(S_127_0_0_1)), IPAddress(ip_address(S_v6_loop))>>
          ELSE <<>>)

AppendAlways(list, san_obj) == Append(list, san_obj)

\* lines 129-130: if san_obj not in san_list: san_list.append(san_obj)
AppendUnique(list, san_obj) ==
    IF \E k \in DOMAIN list : SanEq(list[k], san_obj) THEN list ELSE Append(list, san_obj)

SanExtension_critical(list) ==
    [oid |-> "subjectAltName", critical |-> TRUE, value |-> list]

SanExtension(list) ==
    [oid |-> "subjectAltName", critical |-> FALSE, value |-> list]

KeyUsageExtension ==
    [oid |-> "keyUsage", critical |-> TRUE,
     value |-> [digital_signature |-> TRUE, key_encipherment |-> TRUE,
                content_commitment |-> FALSE, data_encipherment |-> FALSE,
                key_agreement |-> FALSE, key_cert_sign |-> FALSE, crl_sign |-> FALSE,
                encipher_only |-> FALSE, decipher_only |-> FALSE]]

\* line 74: if files_exist and not overwrite
NeedsPrompt(files_exist, overwrite) == files_exist # {} /\ ~overwrite

Declines_unless_n(r) == str_lower(r) = <<"n">>

\* lines 76-77: response = input(...).lower(); if response != 'y'
Declines(r) == str_lower(r) # <<"y">>

----------------------------------------------------------------------------
(* Initial state: the process has started, main has not yet parsed its arguments *)

Init ==
    /\ pc = "parse_args"
    /\ args = NoArgs
    /\ key_file0 \in {Absent, Complete("previous")}
    /\ cert_file0 \in {Absent, Complete("previous")}
    /\ key_file = key_file0
    /\ cert_file = cert_file0
    /\ now = 0
    /\ prompted = FALSE
    /\ response = <<>>
    /\ key = <<>>
    /\ san_list = <<>>
    /\ idx = 0
    /\ builder = EmptyBuilder
    /\ cert = <<>>
    /\ failed = ""
    /\ stdout = <<>>
    /\ stderr = <<>>
    /\ exit_code = 0

\* the clock advances while the process runs
Tick ==
    /\ pc # "exited"
    /\ now < MaxClock
    /\ now' = now + 1
    /\ UNCHANGED <<pc, args, key_file0, cert_file0, key_file, cert_file, prompted, response,
                   key, san_list, idx, builder, cert, failed, stdout, stderr, exit_code>>

----------------------------------------------------------------------------
(* main, line 203: parse_args *)

\* argparse accepts the command line
ParseArgs ==
    /\ pc = "parse_args"
    /\ \E h \in MainHosts, d \in DayStrings, s \in SeqsUpTo(MainSans, MaxSans), ow \in BOOLEAN :
          /\ d = <<>> \/ IntOk(d)
          /\ args' = [hostname  |-> h,
                      days      |-> IF d = <<>> THEN DefaultDays ELSE IntValue(d),
                      sans      |-> s,
                      overwrite |-> ow]
    /\ pc' = "check_existing_files"
    /\ UNCHANGED <<key_file0, cert_file0, key_file, cert_file, now, prompted, response, key,
                   san_list, idx, builder, cert, failed, stdout, stderr, exit_code>>

\* type=int rejects the -d value: argparse prints the usage and exits with status 2
ParseArgsUsageError ==
    /\ pc = "parse_args"
    /\ \E d \in DayStrings : d # <<>> /\ ~IntOk(d)
    /\ stderr' = Append(stderr, "usage")
    /\ exit_code' = 2
    /\ pc' = "exited"
    /\ UNCHANGED <<args, key_file0, cert_file0, key_file, cert_file, now, prompted, response,
                   key, san_list, idx, builder, cert, failed, stdout>>

\* -h/--help: argparse prints the help and exits with status 0
ParseArgsHelp ==
    /\ pc = "parse_args"
    /\ stdout' = Append(stdout, "help")
    /\ exit_code' = 0
    /\ pc' = "exited"
    /\ UNCHANGED <<args, key_file0, cert_file0, key_file, cert_file, now, prompted, response,
                   key, san_list, idx, builder, cert, failed, stderr>>

----------------------------------------------------------------------------
(* main, line 206: check_existing_files *)

FilesExist ==
    (IF key_file # Absent THEN {"key"} ELSE {}) \cup (IF cert_file # Absent THEN {"cert"} ELSE {})

CheckNoPrompt ==
    /\ pc = "check_existing_files"
    /\ ~NeedsPrompt(FilesExist, args.overwrite)
    /\ pc' = "generate_private_key"
    /\ UNCHANGED <<args, key_file0, cert_file0, key_file, cert_file, now, prompted, response,
                   key, san_list, idx, builder, cert, failed, stdout, stderr, exit_code>>

CheckPrompt ==
    /\ pc = "check_existing_files"
    /\ NeedsPrompt(FilesExist, args.overwrite)
    /\ stdout' = Append(stdout, "Warning: files already exist")
    /\ prompted' = TRUE
    /\ pc' = "input"
    /\ UNCHANGED <<args, key_file0, cert_file0, key_file, cert_file, now, response, key,
                   san_list, idx, builder, cert, failed, stderr, exit_code>>

InputDecline ==
    /\ pc = "input"
    /\ \E r \in Responses : Declines(r) /\ response' = <<r>>
    /\ stdout' = Append(stdout, "Aborted.")
    /\ exit_code' = 0
    /\ pc' = "exited"
    /\ UNCHANGED <<args, key_file0, cert_file0, key_file, cert_file, now, prompted, key,
                   san_list, idx, builder, cert, failed, stderr>>

InputAccept ==
    /\ pc = "input"
    /\ \E r \in Responses : ~Declines(r) /\ response' = <<r>>
    /\ pc' = "generate_private_key"
    /\ UNCHANGED <<args, key_file0, cert_file0, key_file, cert_file, now, prompted, key,
                   san_list, idx, builder, cert, failed, stdout, stderr, exit_code>>

\* input() raises EOFError outside main's try: traceback, exit status 1
InputEOF ==
    /\ pc = "input"
    /\ stderr' = Append(stderr, "Traceback: EOFError")
    /\ exit_code' = 1
    /\ pc' = "exited"
    /\ UNCHANGED <<args, key_file0, cert_file0, key_file, cert_file, now, prompted, response,
                   key, san_list, idx, builder, cert, failed, stdout>>

----------------------------------------------------------------------------
(* generate_certificate, lines 93-198, one action per step that can be observed *)

\* an exception leaves generate_certificate at this step
Raise(step) == failed' = step /\ pc' = "except"

\* lines 95-104
GenerateKey ==
    /\ pc = "generate_private_key"
    /\ stdout' = Append(stdout, "Generating certificate...")
    /\ key' = <<"this run">>
    /\ pc' = "san_start"
    /\ UNCHANGED <<args, key_file0, cert_file0, key_file, cert_file, now, prompted, response,
                   san_list, idx, builder, cert, failed, stderr, exit_code>>

GenerateKeyFails ==
    /\ pc = "generate_private_key"
    /\ stdout' = Append(stdout, "Generating certificate...")
    /\ Raise("generate_private_key")
    /\ UNCHANGED <<args, key_file0, cert_file0, key_file, cert_file, now, prompted, response,
                   key, san_list, idx, builder, cert, stderr, exit_code>>

\* lines 116-123
SanStart ==
    /\ pc = "san_start"
    /\ san_list' = InitialSans(args.hostname)
    /\ idx' = 1
    /\ pc' = "san_loop"
    /\ UNCHANGED <<args, key_file0, cert_file0, key_file, cert_file, now, prompted, response,
                   key, builder, cert, failed, stdout, stderr, exit_code>>

\* lines 126-130, one iteration (args.sans is <<>> when no --san was given)
SanStep ==
    /\ pc = "san_loop"
    /\ idx <= Len(args.sans)
    /\ san_list' = AppendUnique(san_list, parse_san(args.sans[idx]))
    /\ idx' = idx + 1
    /\ UNCHANGED <<pc, args, key_file0, cert_file0, key_file, cert_file, now, prompted,
                   response, key, builder, cert, failed, stdout, stderr, exit_code>>

\* lines 132-139
SanDone ==
    /\ pc = "san_loop"
    /\ idx > Len(args.sans)
    /\ stdout' = Append(stdout, "SANs")
    /\ pc' = "not_valid_before"
    /\ UNCHANGED <<args, key_file0, cert_file0, key_file, cert_file, now, prompted, response,
                   key, san_list, idx, builder, cert, failed, stderr, exit_code>>

\* line 148: .not_valid_before(datetime.datetime.utcnow())
NotValidBefore ==
    /\ pc = "not_valid_before"
    /\ builder' = [builder EXCEPT !.not_valid_before = <<now>>]
    /\ pc' = "not_valid_after"
    /\ UNCHANGED <<args, key_file0, cert_file0, key_file, cert_file, now, prompted, response,
                   key, san_list, idx, cert, failed, stdout, stderr, exit_code>>

\* the time line 149 passes to not_valid_after: a second reading of the clock
NotAfterTime == now + timedelta(args.days)

\* line 149; the builder raises ValueError for a time before not_valid_before
NotValidAfter ==
    /\ pc = "not_valid_after"
    /\ ~(NotAfterTime < builder.not_valid_before[1])
    /\ builder' = [builder EXCEPT !.not_valid_after = <<NotAfterTime>>]
    /\ pc' = "add_extension"
    /\ UNCHANGED <<args, key_file0, cert_file0, key_file, cert_file, now, prompted, response,
                   key, san_list, idx, cert, failed, stdout, stderr, exit_code>>

NotValidAfterFails ==
    /\ pc = "not_valid_after"
    /\ NotAfterTime < builder.not_valid_before[1]
    /\ Raise("not_valid_after")
    /\ UNCHANGED <<args, key_file0, cert_file0, key_file, cert_file, now, prompted, response,
                   key, san_list, idx, builder, cert, stdout, stderr, exit_code>>

\* lines 150-170: the two add_extension calls
AddExtensions ==
    /\ pc = "add_extension"
    /\ builder' = [builder EXCEPT !.extensions =
                      Append(Append(@, SanExtension(san_list)), KeyUsageExtension)]
    /\ pc' = "sign"
    /\ UNCHANGED <<args, key_file0, cert_file0, key_file, cert_file, now, prompted, response,
                   key, san_list, idx, cert, failed, stdout, stderr, exit_code>>

\* line 172
Sign ==
    /\ pc = "sign"
    /\ cert' = <<[subject          |-> args.hostname,
                  issuer           |-> args.hostname,
                  public_key       |-> key[1],
                  not_valid_before |-> builder.not_valid_before[1],
                  not_valid_after  |-> builder.not_valid_after[1],
                  extensions       |-> builder.extensions,
                  signed_by        |-> key[1]]>>
    /\ pc' = "open_key"
    /\ UNCHANGED <<args, key_file0, cert_file0, key_file, cert_file, now, prompted, response,
                   key, san_list, idx, builder, failed, stdout, stderr, exit_code>>

SignFails ==
    /\ pc = "sign"
    /\ Raise("sign")
    /\ UNCHANGED <<args, key_file0, cert_file0, key_file, cert_file, now, prompted, response,
                   key, san_list, idx, builder, cert, stdout, stderr, exit_code>>

\* line 175: open(args.key, "wb") creates the file or truncates it
OpenKey ==
    /\ pc = "open_key"
    /\ key_file' = Content(key[1], 0)
    /\ pc' = "write_key"
    /\ UNCHANGED <<args, key_file0, cert_file0, cert_file, now, prompted, response, key,
                   san_list, idx, builder, cert, failed, stdout, stderr, exit_code>>

OpenKeyFails ==
    /\ pc = "open_key"
    /\ Raise("open_key")
    /\ UNCHANGED <<args, key_file0, cert_file0, key_file, cert_file, now, prompted, response,
                   key, san_list, idx, builder, cert, stdout, stderr, exit_code>>

\* lines 176-180: f.write(...) and the close at the end of the with block
WriteKey ==
    /\ pc = "write_key"
    /\ key_file' = Complete(key[1])
    /\ pc' = "open_cert"
    /\ UNCHANGED <<args, key_file0, cert_file0, cert_file, now, prompted, response, key,
                   san_list, idx, builder, cert, failed, stdout, stderr, exit_code>>

\* the write raises OSError (disk full, I/O error) after n units reached the file
WriteKeyFails ==
    /\ pc = "write_key"
    /\ \E n \in 0..(PemLen - 1) : key_file' = Content(key[1], n)
    /\ Raise("write_key")
    /\ UNCHANGED <<args, key_file0, cert_file0, cert_file, now, prompted, response, key,
                   san_list, idx, builder, cert, stdout, stderr, exit_code>>

\* line 183
OpenCert ==
    /\ pc = "open_cert"
    /\ cert_file' = Content(cert[1].signed_by, 0)
    /\ pc' = "write_cert"
    /\ UNCHANGED <<args, key_file0, cert_file0, key_file, now, prompted, response, key,
                   san_list, idx, builder, cert, failed, stdout, stderr, exit_code>>

OpenCertFails ==
    /\ pc = "open_cert"
    /\ Raise("open_cert")
    /\ UNCHANGED <<args, key_file0, cert_file0, key_file, cert_file, now, prompted, response,
                   key, san_list, idx, builder, cert, stdout, stderr, exit_code>>

\* line 184
WriteCert ==
    /\ pc = "write_cert"
    /\ cert_file' = Complete(cert[1].signed_by)
    /\ pc' = "report"
    /\ UNCHANGED <<args, key_file0, cert_file0, key_file, now, prompted, response, key,
                   san_list, idx, builder, cert, failed, stdout, stderr, exit_code>>

WriteCertFails ==
    /\ pc = "write_cert"
    /\ \E n \in 0..(PemLen - 1) : cert_file' = Content(cert[1].signed_by, n)
    /\ Raise("write_cert")
    /\ UNCHANGED <<args, key_file0, cert_file0, key_file, now, prompted, response, key,
                   san_list, idx, builder, cert, stdout, stderr, exit_code>>

\* lines 186-198, then main returns: exit status 0
Report ==
    /\ pc = "report"
    /\ stdout' = Append(stdout, "Certificate generated successfully!")
    /\ exit_code' = 0
    /\ pc' = "exited"
    /\ UNCHANGED <<args, key_file0, cert_file0, key_file, cert_file, now, prompted, response,
                   key, san_list, idx, builder, cert, failed, stderr>>

Except_exit_0 ==
    /\ pc = "except"
    /\ stderr' = Append(stderr, "Error generating certificate")
    /\ exit_code' = 0
    /\ pc' = "exited"
    /\ UNCHANGED <<args, key_file0, cert_file0, key_file, cert_file, now, prompted, response,
                   key, san_list, idx, builder, cert, failed, stdout>>

\* main, lines 210-212: except Exception: print to stderr, sys.exit(1)
Except ==
    /\ pc = "except"
    /\ stderr' = Append(stderr, "Error generating certificate")
    /\ exit_code' = 1
    /\ pc' = "exited"
    /\ UNCHANGED <<args, key_file0, cert_file0, key_file, cert_file, now, prompted, response,
                   key, san_list, idx, builder, cert, failed, stdout>>

----------------------------------------------------------------------------
(* Specifications *)

Next ==
    \/ Tick
    \/ ParseArgs \/ ParseArgsUsageError \/ ParseArgsHelp
    \/ CheckNoPrompt \/ CheckPrompt \/ InputDecline \/ InputAccept \/ InputEOF
    \/ GenerateKey \/ GenerateKeyFails
    \/ SanStart \/ SanStep \/ SanDone
    \/ NotValidBefore \/ NotValidAfter \/ NotValidAfterFails
    \/ AddExtensions \/ Sign \/ SignFails
    \/ OpenKey \/ OpenKeyFails \/ WriteKey \/ WriteKeyFails
    \/ OpenCert \/ OpenCertFails \/ WriteCert \/ WriteCertFails
    \/ Report \/ Except

\* a run of main
Spec == Init /\ [][Next]_vars

\* generate_certificate at line 116, for a wide range of hostnames and --san lists
InitSan ==
    /\ pc = "san_start"
    /\ \E h \in Hostnames, s \in SeqsUpTo(SanStrings, MaxSans) :
          args = [hostname |-> h, days |-> DefaultDays, sans |-> s, overwrite |-> FALSE]
    /\ key_file0 = Absent
    /\ cert_file0 = Absent
    /\ key_file = Absent
    /\ cert_file = Absent
    /\ now = 0
    /\ prompted = FALSE
    /\ response = <<>>
    /\ key = <<"this run">>
    /\ san_list = <<>>
    /\ idx = 0
    /\ builder = EmptyBuilder
    /\ cert = <<>>
    /\ failed = ""
    /\ stdout = <<"Generating certificate...">>
    /\ stderr = <<>>
    /\ exit_code = 0

NextSan == SanStart \/ SanStep \/ SanDone

\* the SAN resolution of generate_certificate, lines 116-139
SpecSan == InitSan /\ [][NextSan]_vars

----------------------------------------------------------------------------
(* Vocabulary of the properties *)

Loopback4 == [tag |-> "IPAddress", value |-> [version |-> 4, groups |-> <<127, 0, 0, 1>>]]
Loopback6 == [tag |-> "IPAddress",
              value |-> [version |-> 6, groups |-> <<0, 0, 0, 0, 0, 0, 0, 1>>]]

SameEntry(a, b) == a.tag = b.tag /\ a.value = b.value

\* the entries of seq[1..k] that no earlier entry equals, in order
RECURSIVE FirstOccurrences(_, _)
FirstOccurrences(seq, k) ==
    IF k = 0 THEN <<>>
    ELSE IF \E j \in 1..(k - 1) : SameEntry(seq[j], seq[k])
         THEN FirstOccurrences(seq, k - 1)
         ELSE Append(FirstOccurrences(seq, k - 1), seq[k])

\* the SAN list the resolver is to produce for a hostname and its user SANs
ExpectedSans(hostname, sans) ==
    LET all == <<[tag |-> "DNSName", value |-> hostname]>>
                 \o (IF hostname = S_localhost THEN <<Loopback4, Loopback6>> ELSE <<>>)
                 \o [k \in DOMAIN sans |-> parse_san(sans[k])]
    IN  FirstOccurrences(all, Len(all))

InSanResolution == pc \in {"san_loop", "not_valid_before"}
SansProcessed   == SubSeq(args.sans, 1, idx - 1)

ArgsParsed   == args # NoArgs
Existed0     == key_file0 # Absent \/ cert_file0 # Absent
FilesUntouched == key_file = key_file0 /\ cert_file = cert_file0
CoreEntered  == "Generating certificate..." \in Range(stdout)
Affirmative  == {<<"y">>, <<"Y">>}
Declined     == response # <<>> /\ response[1] \notin Affirmative
Completed    == /\ failed = ""
                /\ cert # <<>>
                /\ key_file = Complete("this run")
                /\ cert_file = Complete("this run")
ErrorReported == "Error generating certificate" \in Range(stderr)

----------------------------------------------------------------------------
(* Properties *)

\* C1: during and after the loop over the user SANs, the SAN list is DNSName(hostname),
\* then the implicit loopback entries, then the user SANs processed so far as classified
\* by parse_san, each kept only at its first occurrence; and the example of the
\* specification yields [DNSName(ex.com), IPAddress(10.0.0.5), DNSName(*.ex.com)].
C1_SanListIsFirstOccurrences ==
    InSanResolution =>
        /\ san_list = ExpectedSans(args.hostname, SansProcessed)
        /\ (args.hostname = S_example /\ SansProcessed = <<S_example, S_10_0_0_5, S_wildcard>>)
              => san_list = <<[tag |-> "DNSName", value |-> S_example],
                              [tag |-> "IPAddress",
                               value |-> [version |-> 4, groups |-> <<10, 0, 0, 5>>]],
                              [tag |-> "DNSName", value |-> S_wildcard]>>

C1_Witness ==
    /\ pc = "not_valid_before"
    /\ args.hostname = S_example
    /\ args.sans = <<S_example, S_10_0_0_5, S_wildcard>>
    /\ Len(san_list) = 3
    /\ san_list[2].tag = "IPAddress"

\* C2: at every point of the SAN resolution and after it, no two entries of the SAN list
\* have the same tag and the same value.
C2_NoDuplicateSans ==
    \A j, k \in DOMAIN san_list : j # k => ~SameEntry(san_list[j], san_list[k])

\* user SANs equal to the hostname and to both loopback addresses were supplied and dropped
C2_Witness ==
    /\ pc = "not_valid_before"
    /\ args.hostname = S_localhost
    /\ args.sans = <<S_v6_long, S_127_0_0_1, S_localhost>>
    /\ Len(san_list) = 3

\* C3: for the hostname "localhost" the SAN list starts with DNSName(localhost),
\* IPAddress(127.0.0.1), IPAddress(::1), and is exactly these with no user SANs; for any
\* other hostname the list starts with DNSName(hostname) alone and every further entry is
\* a user SAN.
C3_LoopbackOnlyForLocalhost ==
    InSanResolution =>
        /\ args.hostname = S_localhost =>
              /\ Len(san_list) >= 3
              /\ SubSeq(san_list, 1, 3)
                   = <<[tag |-> "DNSName", value |-> S_localhost], Loopback4, Loopback6>>
              /\ (args.sans = <<>> => Len(san_list) = 3)
        /\ args.hostname # S_localhost =>
              /\ san_list[1] = [tag |-> "DNSName", value |-> args.hostname]
              /\ \A k \in 2..Len(san_list) :
                    \E j \in DOMAIN SansProcessed :
                       SameEntry(parse_san(SansProcessed[j]), san_list[k])

C3_Witness ==
    /\ pc = "not_valid_before"
    /\ args.hostname = S_localhost
    /\ args.sans = <<>>
    /\ san_list = <<[tag |-> "DNSName", value |-> S_localhost], Loopback4, Loopback6>>

\* C4: a certificate built for days > 0 has notAfter - notBefore equal to exactly the
\* requested number of days, whatever the clock did during the build.
C4_ValidityIsExactlyDays ==
    (cert # <<>> /\ args.days > 0) =>
        cert[1].not_valid_after - cert[1].not_valid_before = args.days * 86400

\* C5: a request with days <= 0 fails: no certificate is signed, neither file is written,
\* and once generate_certificate was entered the process exits with status 1.
C5_NonPositiveDaysRejected ==
    (ArgsParsed /\ args.days <= 0) =>
        /\ cert = <<>>
        /\ FilesUntouched
        /\ (pc = "exited" /\ CoreEntered) => exit_code = 1

\* C6: every signed certificate carries exactly two extensions, in this order:
\* SubjectAlternativeName, not critical, holding the SAN list, and KeyUsage, critical,
\* with digitalSignature and keyEncipherment set and every other bit clear.
C6_TwoExtensionsWithFixedCriticality ==
    cert # <<>> =>
        LET e == cert[1].extensions
        IN  /\ Len(e) = 2
            /\ e[1].oid = "subjectAltName"
            /\ e[1].critical = FALSE
            /\ e[1].value = san_list
            /\ e[2].oid = "keyUsage"
            /\ e[2].critical = TRUE
            /\ {u \in DOMAIN e[2].value : e[2].value[u]}
                 = {"digital_signature", "key_encipherment"}

C6_Witness ==
    /\ pc = "exited"
    /\ exit_code = 0
    /\ cert # <<>>
    /\ Len(cert[1].extensions[1].value) = 3

\* the exit statuses claimed by C7, for a finished run
ExitCodeRule ==
    /\ exit_code \in {0, 1}
    /\ exit_code = 0 <=> (Completed \/ Declined)
    /\ failed # "" => (exit_code = 1 /\ ErrorReported)

\* C7 as stated: every run of main ends with exit code 0 or 1, 0 exactly when the
\* generation completed or the user declined the overwrite, 1 with the message on the
\* error stream whenever a step of generate_certificate failed.
C7_EveryRunExits0Or1 == pc = "exited" => ExitCodeRule

\* C7 amended: the same for every run whose command line parse_args accepts (argparse
\* itself ends the run with status 2 on a usage error and with status 0 for --help).
C7_ParsedRunExits0Or1 == (pc = "exited" /\ ArgsParsed) => ExitCodeRule

C7_Witness ==
    /\ pc = "exited"
    /\ failed = "write_cert"
    /\ exit_code = 1
    /\ ErrorReported

\* C8: the existing-file guard runs before the core. When a file exists and the overwrite
\* flag is false the user is prompted before anything is generated, and a response other
\* than y/Y ends the run with status 0, no key generated and both files as they were; the
\* prompt is never shown when the flag is true or when neither file exists.
C8_GuardBeforeCore ==
    /\ prompted => (Existed0 /\ ~args.overwrite)
    /\ (ArgsParsed /\ Existed0 /\ ~args.overwrite /\ pc # "check_existing_files") => prompted
    /\ (prompted /\ (response = <<>> \/ Declined)) => (key = <<>> /\ ~CoreEntered /\ FilesUntouched)
    /\ Declined => (pc = "exited" /\ exit_code = 0)

C8_Witness ==
    /\ pc = "exited"
    /\ prompted
    /\ response = <<(<<"y", "e", "s">>)>>
    /\ exit_code = 0
    /\ key_file = Complete("previous")

\* C9: when a run has ended, each output file holds either what it held before the run
\* or the complete new PEM text, never an empty or truncated file.
C9_WritesAreAllOrNothing ==
    pc = "exited" =>
        /\ key_file \in {key_file0, Complete("this run")}
        /\ cert_file \in {cert_file0, Complete("this run")}

\* C10: when a run has ended, a key file written by this run lies next to the certificate
\* signed by that key; neither file is modified before signing succeeded, and the
\* certificate file is touched only after the key file is complete.
C10_KeyAndCertBelongTogether ==
    /\ (pc = "exited" /\ key_file = Complete("this run")) => cert_file = Complete("this run")
    /\ cert = <<>> => FilesUntouched
    /\ cert_file # cert_file0 => key_file = Complete("this run")

====
